---- MODULE Spec2Model ----
(***************************************************************************)
(* Email-AI background service worker: the sync controller (syncEmails),   *)
(* the per-message pipeline (processEmail), the processed-email list and   *)
(* the statistics record kept in chrome.storage, the email classifier     *)
(* with its keyword fallback, forceSyncEmails, the stored custom labels    *)
(* and the retry loop of the summarizer.                                   *)
(*                                                                         *)
(* JavaScript runs one callback at a time, so every action below is the    *)
(* code that runs between two awaits of one invocation: it starts when an  *)
(* awaited promise settles and ends when the next await is reached (or the *)
(* function returns).  Awaited calls that touch no state shared between    *)
(* invocations (the AI services, the Gmail calls of one message) are taken *)
(* together in one action; every chrome.storage read and write of shared   *)
(* keys is an action of its own.                                           *)
(*                                                                         *)
(* Text is a sequence of one-character strings, so that toLowerCase,       *)
(* includes and substring are computed, not assumed.                       *)
(***************************************************************************)
EXTENDS Integers, Sequences, FiniteSets, TLC

-----------------------------------------------------------------------------
(* Bounds of the model *)

\* concurrent syncEmails invocations (alarm ticks and SYNC_EMAILS messages)
NumProcs == 2

\* invocations started in one behaviour; also the range of the clock
MaxStarts == 3

\* distinct messages the mailbox can list
MaxMsgs == 1

\* rejected storage calls and failed collaborator calls in one behaviour
MaxFaults == 1

\* messages in the mailbox of CycleSpec
CycleMsgs == 2

\* custom labels added beyond the bound of the stored list
MaxAdds == 2

\* markEmailAsProcessed calls in one behaviour of DedupSpec
MaxMarks == 3

\* ids never stored before, available to DedupSpec
FreshIds == 3

-----------------------------------------------------------------------------
(* Program constants *)

\* processed.slice(-1000)
DedupCap == 1000

\* fetchUnreadEmails(10)
FetchMax == 10

\* setEmailPriority: if (entries.length > 500); the bound the
\* specification gives for the stored custom labels too
PrioritiesMax == 500

\* apiConfig.js: export const MAX_RETRIES = 3
MAX_RETRIES == 3

\* apiConfig.js: export const RETRY_DELAY = 1000
RETRY_DELAY == 1000

\* summary.substring(0, 100) in fallbackClassification
SummaryMax == 100

\* emailContent.substring(0, 500) in summarizeEmail
TruncateMax == 500

\* 5 / 60 hour per draft; hoursSaved is counted in minutes here
DraftMinutes == 5

NOTIFICATION == "Notification"

RESPOND == "Respond"

ADVERTISEMENT == "Advertisement"

\* Object.values(EMAIL_CATEGORIES)
EMAIL_CATEGORIES == {NOTIFICATION, RESPOND, ADVERTISEMENT}

-----------------------------------------------------------------------------
(* Text *)

UpperCase == <<"A", "B", "C", "D", "E", "F", "G", "H", "I", "J", "K", "L", "M", "N", "O", "P", "Q", "R", "S", "T", "U", "V", "W", "X", "Y", "Z">>

LowerCase == <<"a", "b", "c", "d", "e", "f", "g", "h", "i", "j", "k", "l", "m", "n", "o", "p", "q", "r", "s", "t", "u", "v", "w", "x", "y", "z">>

\* String.prototype.toLowerCase on the letters A-Z
toLowerCase(s) ==
    [i \in 1..Len(s) |->
        IF \E k \in 1..Len(UpperCase) : UpperCase[k] = s[i]
        THEN LowerCase[CHOOSE k \in 1..Len(UpperCase) : UpperCase[k] = s[i]]
        ELSE s[i]]

\* String.prototype.includes: k occurs in s as a contiguous substring
includes(s, k) ==
    \E i \in 0..(Len(s) - Len(k)) : SubSeq(s, i + 1, i + Len(k)) = k

\* String.prototype.substring(0, n)
substring(s, n) ==
    IF Len(s) <= n THEN s ELSE SubSeq(s, 1, n)

\* Array.prototype.includes on a list
Includes(list, x) ==
    \E i \in 1..Len(list) : list[i] = x

TxtEmpty == <<>>

TxtSaleUnsub == <<"5", "0", "%", " ", "o", "f", "f", " ", "s", "a", "l", "e", " ", "-", " ", "u", "n", "s", "u", "b", "s", "c", "r", "i", "b", "e", " ", "n", "o", "w">>

TxtCanYou == <<"C", "a", "n", " ", "y", "o", "u", " ", "r", "e", "v", "i", "e", "w", " ", "t", "h", "i", "s", " ", "b", "y", " ", "F", "r", "i", "d", "a", "y", "?">>

TxtReceiptConf == <<"r", "e", "c", "e", "i", "p", "t", " ", "c", "o", "n", "f", "i", "r", "m", "a", "t", "i", "o", "n">>

TxtNoReply == <<"n", "o", "-", "r", "e", "p", "l", "y", "@", "s", "e", "r", "v", "i", "c", "e", ".", "c", "o", "m">>

TxtWholesale == <<"W", "H", "O", "L", "E", "S", "A", "L", "E", " ", "p", "r", "i", "c", "e", "s">>

TxtAlertHelp == <<"A", "l", "e", "r", "t", ":", " ", "p", "l", "e", "a", "s", "e", " ", "h", "e", "l", "p">>

TxtNotes == <<"M", "e", "e", "t", "i", "n", "g", " ", "n", "o", "t", "e", "s">>

TxtBob == <<"B", "o", "b", " ", "<", "b", "o", "b", "@", "c", "o", "r", "p", ".", "c", "o", "m", ">">>

TxtPleaseReview == <<"p", "l", "e", "a", "s", "e", " ", "r", "e", "v", "i", "e", "w">>

TxtYourReceipt == <<"Y", "o", "u", "r", " ", "r", "e", "c", "e", "i", "p", "t">>

TxtOfferQ == <<"S", "p", "e", "c", "i", "a", "l", " ", "O", "F", "F", "E", "R", "?">>

TxtNoreplyShop == <<"N", "o", "R", "e", "p", "l", "y", "@", "s", "h", "o", "p", ".", "c", "o", "m">>

\* a fixed message of the code, kept as one token
Literal(str) == <<str>>

-----------------------------------------------------------------------------
(* classifyEmail.js *)

adKeywords ==
    << <<"u", "n", "s", "u", "b", "s", "c", "r", "i", "b", "e">>,
       <<"p", "r", "o", "m", "o", "t", "i", "o", "n">>,
       <<"d", "i", "s", "c", "o", "u", "n", "t">>,
       <<"o", "f", "f", "e", "r">>,
       <<"s", "a", "l", "e">>,
       <<"m", "a", "r", "k", "e", "t", "i", "n", "g">>,
       <<"a", "d", "v", "e", "r", "t", "i", "s", "e", "m", "e", "n", "t">> >>

notificationKeywords ==
    << <<"n", "o", "t", "i", "f", "i", "c", "a", "t", "i", "o", "n">>,
       <<"a", "l", "e", "r", "t">>,
       <<"c", "o", "n", "f", "i", "r", "m", "a", "t", "i", "o", "n">>,
       <<"r", "e", "c", "e", "i", "p", "t">>,
       <<"a", "u", "t", "o", "m", "a", "t", "e", "d">>,
       <<"n", "o", "-", "r", "e", "p", "l", "y">>,
       <<"n", "o", "r", "e", "p", "l", "y">> >>

responseKeywords ==
    << <<"?">>,
       <<"p", "l", "e", "a", "s", "e">>,
       <<"c", "o", "u", "l", "d", " ", "y", "o", "u">>,
       <<"c", "a", "n", " ", "y", "o", "u">>,
       <<"n", "e", "e", "d">>,
       <<"r", "e", "q", "u", "e", "s", "t">>,
       <<"h", "e", "l", "p">>,
       <<"q", "u", "e", "s", "t", "i", "o", "n">> >>

\* keywords.some(keyword => a.includes(keyword) || b.includes(keyword))
someKeyword(keywords, a, b) ==
    \E n \in 1..Len(keywords) : includes(a, keywords[n]) \/ includes(b, keywords[n])

\* the same rules with the notification check moved in front of the
\* advertisement check
fallbackClassification_NotificationFirst(summary, metadata) ==
    LET subject == toLowerCase(metadata.subject)
        from    == toLowerCase(metadata.from)
        text    == toLowerCase(summary)
    IN  IF someKeyword(notificationKeywords, from, subject)
        THEN [category |-> NOTIFICATION,
              summary  |-> Literal("Automated notification or confirmation")]
        ELSE IF someKeyword(adKeywords, text, subject)
        THEN [category |-> ADVERTISEMENT,
              summary  |-> Literal("Marketing or promotional email")]
        ELSE IF someKeyword(responseKeywords, text, subject)
        THEN [category |-> RESPOND,
              summary  |-> Literal("Email requires response or action")]
        ELSE [category |-> NOTIFICATION,
              summary  |-> substring(summary, SummaryMax)]

\* fallbackClassification(summary, metadata): keyword rules, first hit wins
fallbackClassification(summary, metadata) ==
    LET subject == toLowerCase(metadata.subject)
        from    == toLowerCase(metadata.from)
        text    == toLowerCase(summary)
    IN  IF someKeyword(adKeywords, text, subject)
        THEN [category |-> ADVERTISEMENT,
              summary  |-> Literal("Marketing or promotional email")]
        ELSE IF someKeyword(notificationKeywords, from, subject)
        THEN [category |-> NOTIFICATION,
              summary  |-> Literal("Automated notification or confirmation")]
        ELSE IF someKeyword(responseKeywords, text, subject)
        THEN [category |-> RESPOND,
              summary  |-> Literal("Email requires response or action")]
        ELSE [category |-> NOTIFICATION,
              summary  |-> substring(summary, SummaryMax)]

\* a property the parsed JSON object does not have
Undefined == "(undefined)"

\* The text the model answered with, by what parseClassificationResponse
\* can make of it:
\*   "text"      no {...} in it: content.match returns null
\*   "malformed" a {...} that JSON.parse rejects
\*   "json"      a {...} that parses; category and summary are its
\*               properties (Undefined when absent)
ResponseKinds == {"text", "malformed", "json"}

\* the validation dropped: parsed.category is returned as it came
parseClassificationResponse_Unvalidated(content) ==
    IF content.kind = "json"
    THEN [category |-> content.category,
          summary  |-> IF content.summary = TxtEmpty
                       THEN Literal("No summary available")
                       ELSE content.summary]
    ELSE [category |-> NOTIFICATION,
          summary  |-> Literal("Classification failed")]

\* parseClassificationResponse(content)
parseClassificationResponse(content) ==
    IF content.kind = "json"
    THEN [category |-> IF content.category \in EMAIL_CATEGORIES
                       THEN content.category
                       ELSE NOTIFICATION,
          summary  |-> IF content.summary = TxtEmpty
                       THEN Literal("No summary available")
                       ELSE content.summary]
    ELSE [category |-> NOTIFICATION,
          summary  |-> Literal("Classification failed")]

\* What the collaborators of one classifyEmail call do:
\*   apiKeys  "error" getApiKeys rejects, "missing" no OpenRouter key,
\*            "present" a key is configured
\*   request  "error" fetch fails, times out, answers !ok or without content;
\*            "content" an answer text arrives
\*   content  the answer text (see ResponseKinds)
usesFallback(env) ==
    env.apiKeys # "present" \/ env.request = "error"

\* classifyEmail(emailSummary, emailMetadata)
classifyEmail(env, emailSummary, emailMetadata) ==
    IF env.apiKeys = "error"
    THEN fallbackClassification(emailSummary, emailMetadata)
    ELSE IF env.apiKeys = "missing"
    THEN fallbackClassification(emailSummary, emailMetadata)
    ELSE IF env.request = "error"
    THEN fallbackClassification(emailSummary, emailMetadata)
    ELSE parseClassificationResponse(env.content)

-----------------------------------------------------------------------------
(* storage.js: the processed-email list and the statistics record *)

\* slice(0, n) written for slice(-n): the first n elements are kept
sliceLast_KeepsOldest(list, n) ==
    IF Len(list) <= n THEN list ELSE SubSeq(list, 1, n)

\* Array.prototype.slice(-n): the last n elements
sliceLast(list, n) ==
    IF Len(list) <= n THEN list ELSE SubSeq(list, Len(list) - n + 1, Len(list))

\* the test `if (true)`: the membership test of markEmailAsProcessed dropped
needsInsert_Always(processed, emailId) ==
    TRUE

\* markEmailAsProcessed: if (!processed.includes(emailId))
needsInsert(processed, emailId) ==
    ~Includes(processed, emailId)

\* processed.unshift(emailId) written for push: the id goes to the front
trimmed_Unshift(processed, emailId) ==
    sliceLast(<<emailId>> \o processed, DedupCap)

\* markEmailAsProcessed: processed.push(emailId); processed.slice(-1000)
trimmed(processed, emailId) ==
    sliceLast(Append(processed, emailId), DedupCap)

\* markEmailAsProcessed(emailId) with no other storage access in between
markEmailAsProcessed(processed, emailId) ==
    IF needsInsert(processed, emailId)
    THEN trimmed(processed, emailId)
    ELSE processed

\* isEmailProcessed(emailId)
isEmailProcessed(processed, emailId) ==
    Includes(processed, emailId)

\* getStatistics() when the key was never written
\* (the lastUpdated time stamp of the record is left out)
DefaultStatistics ==
    [emailsProcessed |-> 0, draftsGenerated |-> 0, hoursSaved |-> 0]

\* incrementStatistic: stats[counter] = (stats[counter] || 0) + amount
incremented(stats, counter, amount) ==
    [stats EXCEPT ![counter] = @ + amount]

-----------------------------------------------------------------------------
(* The mailbox *)

Msgs == 1..MaxMsgs

\* the mailbox of CycleSpec
CycleMailbox == 1..CycleMsgs

\* The messages, by id.  email.body is never empty here.
EmailContents ==
    << [subject |-> TxtCanYou,    from |-> TxtBob,     body |-> TxtPleaseReview],
       [subject |-> TxtSaleUnsub, from |-> TxtNoreplyShop, body |-> TxtWholesale],
       [subject |-> TxtYourReceipt, from |-> TxtNoReply, body |-> TxtReceiptConf] >>

\* the email object fetchEmailDetails builds for message id
Email(id) ==
    LET c == EmailContents[((id - 1) % Len(EmailContents)) + 1]
    IN  [id |-> id, threadId |-> id, subject |-> c.subject, from |-> c.from,
         body |-> c.body]

RECURSIVE ListOf(_)
\* the ids of S in mailbox order
ListOf(S) ==
    IF S = {} THEN <<>>
    ELSE LET m == CHOOSE x \in S : \A y \in S : x <= y
         IN  <<m>> \o ListOf(S \ {m})

\* what fetchUnreadEmails(10) can resolve to: unread messages of the
\* mailbox, in mailbox order, at most FetchMax of them
Listings(unread) ==
    {ListOf(S) : S \in {T \in SUBSET unread : Cardinality(T) <= FetchMax}}

-----------------------------------------------------------------------------
(* background.js: processEmail *)

\* summarizeEmail(emailContent): the summary of the Summarizer API, or
\* emailContent.substring(0, 500) + '...' without a key or after a failure
summarizeEmail(summarizer, emailContent) ==
    IF summarizer = "ai"
    THEN TxtNotes
    ELSE substring(emailContent, TruncateMax) \o <<".", ".", ".">>

\* no answer text (the request was not made or failed)
NoContent == [kind |-> "text", category |-> Undefined, summary |-> TxtEmpty]

\* the classifier environments the processEmail runs of a cycle are tried
\* with: keyword fallback, an answer without JSON, an answer "Respond", an
\* answer with an unknown category
PipelineClassifierEnvs ==
    { [apiKeys |-> "missing", request |-> "error", content |-> NoContent],
      [apiKeys |-> "present", request |-> "content", content |-> NoContent],
      [apiKeys |-> "present", request |-> "content",
       content |-> [kind |-> "json", category |-> RESPOND, summary |-> TxtNotes]],
      [apiKeys |-> "present", request |-> "content",
       content |-> [kind |-> "json", category |-> "Spam", summary |-> TxtEmpty]] }

\* What the other collaborators of one processEmail run do:
\*   settingsOk     getSettings() of line 194 resolves
\*   labelOk        applyLabel(email.id, category) resolves
\*   custom         the label names customClassifyEmail resolves to
\*   customLabelOk  applyLabel(email.id, labelName) resolves
\*   draftOk        generateDraftReply(email) resolves (createDraft succeeded)
PipelineEnvs ==
    [settingsOk : BOOLEAN, labelOk : BOOLEAN, custom : {<<>>, <<"Work">>},
     customLabelOk : BOOLEAN, draftOk : BOOLEAN]

\* the settings record: DEFAULT_SETTINGS or what the Settings page saved.
\* The page can save at any time, so every getSettings() may see any of them.
SettingsChoices ==
    [autoSync : BOOLEAN, autoApplyLabels : BOOLEAN, autoDraft : BOOLEAN]

\* processEmail's catch block: { success: false, emailId, error }
failureResult(labelCalls, draftCalls) ==
    [success |-> FALSE, category |-> Undefined, customLabels |-> <<>>,
     labelCalls |-> labelCalls, draftCalls |-> draftCalls, draft |-> FALSE]

\* the setting not looked at: the labels are applied whatever it says
applyLabelCalls_Ungated(classification, env, st) ==
    IF ~env.labelOk THEN <<classification.category>>
    ELSE IF env.customLabelOk \/ Len(env.custom) = 0
    THEN <<classification.category>> \o env.custom
    ELSE <<classification.category, env.custom[1]>>

\* The applyLabel(email.id, ...) calls of processEmail, by label name and in
\* order: the category (lines 195-197), then the matched custom labels
\* (lines 212-216).  A rejected call for the category ends processEmail, a
\* rejected call for a custom label (modelled for the first one) ends the
\* custom-label loop.
applyLabelCalls(classification, env, st) ==
    IF ~st.autoApplyLabels THEN <<>>
    ELSE IF ~env.labelOk THEN <<classification.category>>
    ELSE IF env.customLabelOk \/ Len(env.custom) = 0
    THEN <<classification.category>> \o env.custom
    ELSE <<classification.category, env.custom[1]>>

\* processEmail from the getSettings() of step 3 up to the return of
\* generateDraftReply.  draft = TRUE: a draft was created and the two
\* incrementStatistic calls follow; otherwise processEmail returns the record.
\* labelCalls and draftCalls count the applyLabel and createDraft requests.
processEmailStages(classification, env, st) ==
    LET labels        == applyLabelCalls(classification, env, st)
        wantsDraft    == classification.category = RESPOND /\ st.autoDraft
    IN  IF ~env.settingsOk
        THEN failureResult(0, 0)
        ELSE IF st.autoApplyLabels /\ ~env.labelOk
        THEN failureResult(Len(labels), 0)
        ELSE IF wantsDraft /\ ~env.draftOk
        THEN failureResult(Len(labels), 1)
        ELSE [success |-> TRUE, category |-> classification.category,
              customLabels |-> env.custom,
              labelCalls |-> Len(labels),
              draftCalls |-> IF wantsDraft THEN 1 ELSE 0,
              draft |-> wantsDraft]

-----------------------------------------------------------------------------
(* State *)

Procs == 1..NumProcs

VARIABLES
    isProcessing,    \* background.js: let isProcessing
    pc,              \* per invocation: the await it is suspended at
    emails,          \* per invocation: const emails
    idx,             \* per invocation: position of the for loop in emails
    processedCount,  \* per invocation: let processedCount
    result,          \* per invocation: what processEmail(email) returned
                     \* (success, and whether a draft was created)
    statsCopy,       \* per invocation: const stats of incrementStatistic
    listCopy,        \* per invocation: const trimmed of markEmailAsProcessed
    processedEmails, \* chrome.storage: STORAGE_KEYS.PROCESSED_EMAILS
    statistics,      \* chrome.storage: STORAGE_KEYS.STATISTICS
    lastSync,        \* chrome.storage: STORAGE_KEYS.LAST_SYNC
    now,             \* Date.now(); advances when an invocation starts
    lastExit,        \* how the last invocation to return came to return,
                     \* if none has started since
    holding,         \* per invocation: it set isProcessing and has not yet
                     \* executed one of its isProcessing = false
    cycle,           \* per invocation: its successful processEmail results
                     \* so far, and how many of them made a draft
    faults,          \* calls that have failed so far
    pipelineRuns,    \* per message id: processEmail(email) calls of syncEmails,
                     \* counted up to 2
    history,         \* the ids pushed to the processed list, in order
    marks,           \* the ids markEmailAsProcessed was called with
    clsIn,           \* the arguments of a classifyEmail call
    clsOut,          \* what it returned
    mailbox,         \* the ids of the messages Gmail can list as unread
    trigger,         \* per invocation: what called syncEmails(), the
                     \* 'emailSync' alarm or a SYNC_EMAILS message
    response,        \* the last sendResponse(...) of the SYNC_EMAILS case,
                     \* if no cycle has started since
    peIn,            \* a processEmail call: who calls, with what, and what
                     \* its collaborators do
    peOut,           \* what the call did and returned
    customLabels,    \* chrome.storage: STORAGE_KEYS.CUSTOM_LABELS
    sumIn,           \* a summarizeEmail call: its argument and how the
                     \* requests to the Summarizer API go
    sumOut           \* what the call returned, after which requests

vars ==
    <<isProcessing, pc, emails, idx, processedCount, result, statsCopy,
      listCopy, processedEmails, statistics, lastSync, now, lastExit,
      holding, cycle, faults, pipelineRuns, history, marks, clsIn, clsOut,
      mailbox, trigger, response, peIn, peOut, customLabels, sumIn, sumOut>>

\* everything a processEmail call on its own leaves alone
pipelineFrame ==
    <<isProcessing, pc, emails, idx, processedCount, result, statsCopy,
      listCopy, lastSync, now, lastExit, holding, cycle, faults,
      pipelineRuns, trigger, response, history, marks, clsIn, clsOut, mailbox,
      customLabels, sumIn, sumOut>>

syncVars ==
    <<isProcessing, pc, emails, idx, processedCount, result, statsCopy,
      listCopy, statistics, lastSync, now, lastExit, holding, cycle, faults,
      pipelineRuns, trigger, response, customLabels, sumIn, sumOut>>

NoResult == [success |-> FALSE, draft |-> FALSE]

NoCycle == [succeeded |-> 0, drafts |-> 0]

\* nothing was sent; of: how the invocation that is answered came to return
NoResponse == [sent |-> FALSE, success |-> FALSE, of |-> "none"]

NoClassification == [category |-> "-", summary |-> TxtEmpty]

NoInput == [summary |-> TxtEmpty, subject |-> TxtEmpty, from |-> TxtEmpty,
            env |-> [apiKeys |-> "missing", request |-> "error",
                     content |-> NoContent]]

\* no summarizeEmail call is looked at
NoRequest == [content |-> TxtEmpty, key |-> FALSE, outcomes |-> <<>>]

\* summarizeEmail was not called yet
NoSummary == [called |-> FALSE]

\* no processEmail call is looked at
NoCall == [from |-> "none"]

\* processEmail was not called yet
NoRun == [called |-> FALSE]

SyncInit ==
    /\ isProcessing = FALSE
    /\ pc = [p \in Procs |-> "idle"]
    /\ emails = [p \in Procs |-> <<>>]
    /\ idx = [p \in Procs |-> 0]
    /\ processedCount = [p \in Procs |-> 0]
    /\ result = [p \in Procs |-> NoResult]
    /\ statsCopy = [p \in Procs |-> DefaultStatistics]
    /\ listCopy = [p \in Procs |-> <<>>]
    /\ statistics = DefaultStatistics
    /\ lastSync = 0
    /\ now = 0
    /\ lastExit = "none"
    /\ holding = [p \in Procs |-> FALSE]
    /\ cycle = [p \in Procs |-> NoCycle]
    /\ faults = 0
    /\ pipelineRuns = [m \in Msgs \cup CycleMailbox |-> 0]
    /\ trigger = [p \in Procs |-> "-"]
    /\ response = NoResponse

Init ==
    /\ SyncInit
    /\ peIn = NoCall
    /\ peOut = NoRun
    /\ customLabels = <<>>
    /\ sumIn = NoRequest
    /\ sumOut = NoSummary
    /\ mailbox = Msgs
    /\ processedEmails = <<>>
    /\ history = <<>>
    /\ marks = <<>>
    /\ clsIn = NoInput
    /\ clsOut = NoClassification

-----------------------------------------------------------------------------
(* background.js: syncEmails *)

\* the catch block without its assignment: the flag keeps its value
flagAfterCatch_Kept ==
    isProcessing

\* catch (error) { ...; isProcessing = false; }
flagAfterCatch ==
    FALSE

\* if (emails.length === 0) { isProcessing = false; return; }
flagAfterEmptyList ==
    FALSE

\* isProcessing = false after the for loop
flagAfterLoop ==
    FALSE

\* if (isProcessing) { ...; return; }
alreadyRunning ==
    isProcessing

\* the skipped invocation's return taken through the catch block
flagAfterSkip_Cleared ==
    FALSE

\* the returns of lines 101-117 are plain returns: the flag stays as it is
flagAfterSkip ==
    isProcessing

otherVars ==
    <<history, marks, clsIn, clsOut, mailbox, peIn, peOut, customLabels,
      sumIn, sumOut>>

\* how an awaited call can settle: TRUE it resolves, FALSE it rejects
Settled == IF faults < MaxFaults THEN BOOLEAN ELSE {TRUE}

\* the call settled; a rejection is counted
Settles(ok) == faults' = IF ok THEN faults ELSE faults + 1

\* case 'SYNC_EMAILS': await syncEmails(); sendResponse({ success: true })
syncEmailsResponse(reason) ==
    [sent |-> TRUE, success |-> TRUE, of |-> reason]

\* the syncEmails invocation of p, called by t, returns; its locals are
\* gone; the alarm listener is done, the message listener answers
ReturnsTo(p, reason, t) ==
    /\ response' = IF t = "SYNC_EMAILS" THEN syncEmailsResponse(reason)
                                        ELSE response
    /\ trigger' = [trigger EXCEPT ![p] = "-"]
    /\ pc' = [pc EXCEPT ![p] = "idle"]
    /\ lastExit' = reason
    /\ emails' = [emails EXCEPT ![p] = <<>>]
    /\ idx' = [idx EXCEPT ![p] = 0]
    /\ processedCount' = [processedCount EXCEPT ![p] = 0]
    /\ result' = [result EXCEPT ![p] = NoResult]
    /\ statsCopy' = [statsCopy EXCEPT ![p] = DefaultStatistics]
    /\ listCopy' = [listCopy EXCEPT ![p] = <<>>]
    /\ cycle' = [cycle EXCEPT ![p] = NoCycle]

\* the same for an invocation that is past its first two awaits
Returns(p, reason) ==
    ReturnsTo(p, reason, trigger[p])

\* the catch block of syncEmails, then the return
CaughtTo(p, reason, t) ==
    /\ isProcessing' = flagAfterCatch
    /\ holding' = [holding EXCEPT ![p] = @ /\ flagAfterCatch]
    /\ ReturnsTo(p, reason, t)

\* the same for an invocation that is past its first two awaits
Caught(p, reason) ==
    CaughtTo(p, reason, trigger[p])

\* The for loop goes on after the message at idx[p]: to the
\* isEmailProcessed call of the next message, or, after the last one, past
\* the loop to the first await there (incrementStatistic when
\* processedCount > 0, else setStorage of the last-sync time).
Advance(p) ==
    /\ result' = [result EXCEPT ![p] = NoResult]
    /\ statsCopy' = [statsCopy EXCEPT ![p] = DefaultStatistics]
    /\ listCopy' = [listCopy EXCEPT ![p] = <<>>]
    /\ UNCHANGED <<emails, processedCount, lastExit, cycle, trigger, response>>
    /\ IF idx[p] < Len(emails[p])
       THEN /\ idx' = [idx EXCEPT ![p] = @ + 1]
            /\ pc' = [pc EXCEPT ![p] = "isEmailProcessed"]
            /\ UNCHANGED <<isProcessing, holding>>
       ELSE /\ idx' = idx
            /\ isProcessing' = flagAfterLoop
            /\ holding' = [holding EXCEPT ![p] = @ /\ flagAfterLoop]
            /\ pc' = [pc EXCEPT ![p] =
                        IF processedCount[p] > 0 THEN "statRead" ELSE "lastSync"]

\* the for loop body without its try/catch: the error reaches the catch
\* block of syncEmails
MessageCaught_Abort(p) ==
    Caught(p, "messageError")

\* the catch block of the for loop body: console.error, and the loop goes on
MessageCaught(p) ==
    Advance(p)

\* processEmail has returned res; processedCount++ and
\* markEmailAsProcessed(email.id) is called
Processed(p, res) ==
    /\ UNCHANGED <<trigger, response>>
    /\ result' = [result EXCEPT ![p] = [success |-> res.success, draft |-> res.draft]]
    /\ processedCount' = [processedCount EXCEPT ![p] = @ + 1]
    /\ cycle' = [cycle EXCEPT
                    ![p].succeeded = @ + (IF res.success THEN 1 ELSE 0),
                    ![p].drafts = @ + (IF res.success /\ res.draft THEN 1 ELSE 0)]
    /\ pc' = [pc EXCEPT ![p] = "markRead"]

\* what calls syncEmails(): the onAlarm listener, the onMessage listener
Triggers == {"alarm", "SYNC_EMAILS"}

\* The alarm 'emailSync' fires or a SYNC_EMAILS message arrives and
\* syncEmails() runs up to await fetchUnreadEmails(10), or returns before:
\* isAuthenticated() (which never rejects), getSettings(), the autoSync
\* test, the isProcessing test and isProcessing = true.  The two awaited
\* reads touch nothing another invocation writes, so the action happens at
\* the moment getSettings() settles.  Invocations are interchangeable; the
\* new one takes the lowest free slot.
Start(p) ==
    /\ pc[p] = "idle"
    /\ \A q \in Procs : q < p => pc[q] # "idle"
    /\ now < MaxStarts
    /\ now' = now + 1
    /\ \E authenticated \in BOOLEAN, ok \in Settled, settings \in SettingsChoices,
          t \in Triggers :
          /\ Settles(authenticated => ok)
          /\ IF ~authenticated
             THEN /\ ReturnsTo(p, "unauthenticated", t)
                  /\ isProcessing' = flagAfterSkip
                  /\ UNCHANGED holding
             ELSE IF ~ok
             THEN CaughtTo(p, "settingsError", t)
             ELSE IF ~settings.autoSync
             THEN /\ ReturnsTo(p, "disabled", t)
                  /\ isProcessing' = flagAfterSkip
                  /\ UNCHANGED holding
             ELSE IF alreadyRunning
             THEN /\ ReturnsTo(p, "alreadyRunning", t)
                  /\ isProcessing' = flagAfterSkip
                  /\ UNCHANGED holding
             ELSE /\ isProcessing' = TRUE
                  /\ holding' = [holding EXCEPT ![p] = TRUE]
                  /\ pc' = [pc EXCEPT ![p] = "fetchUnreadEmails"]
                  /\ lastExit' = "none"
                  /\ trigger' = [trigger EXCEPT ![p] = t]
                  /\ response' = NoResponse
                  /\ UNCHANGED <<emails, idx, processedCount, result,
                                 statsCopy, listCopy, cycle>>
    /\ UNCHANGED <<processedEmails, statistics, lastSync, pipelineRuns,
                   otherVars>>

\* fetchUnreadEmails(10) settles
AfterFetch(p) ==
    /\ pc[p] = "fetchUnreadEmails"
    /\ \/ /\ FALSE \in Settled
          /\ Settles(FALSE)
          /\ Caught(p, "fetchError")
       \/ \E list \in Listings(mailbox) :
             /\ Settles(TRUE)
             /\ IF Len(list) = 0
                THEN /\ isProcessing' = flagAfterEmptyList
                     /\ holding' = [holding EXCEPT ![p] = @ /\ flagAfterEmptyList]
                     /\ Returns(p, "empty")
                ELSE /\ emails' = [emails EXCEPT ![p] = list]
                     /\ idx' = [idx EXCEPT ![p] = 1]
                     /\ pc' = [pc EXCEPT ![p] = "isEmailProcessed"]
                     /\ UNCHANGED <<isProcessing, holding, lastExit,
                                    processedCount, result, statsCopy, listCopy,
                                    cycle, trigger, response>>
    /\ UNCHANGED <<processedEmails, statistics, lastSync, now, pipelineRuns,
                   otherVars>>

\* what processEmail(email) can come to before its first incrementStatistic
\* call, over everything its collaborators can do
processEmailResults(email) ==
    UNION { LET summary == summarizeEmail(summarizer, email.body)
                classification ==
                    classifyEmail(cenv, summary,
                                  [subject |-> email.subject, from |-> email.from])
            IN  { processEmailStages(classification, env, settings) :
                      env \in PipelineEnvs, settings \in SettingsChoices }
            : summarizer \in {"ai", "fallback"}, cenv \in PipelineClassifierEnvs }

\* isEmailProcessed(email.id) settles.  For a message that is not in the
\* list processEmail(email) is called and runs to its first
\* incrementStatistic call, or to its return when no draft was created;
\* none of its awaited calls up to there touches state shared between
\* invocations.
ProcessEmail(p) ==
    /\ pc[p] = "isEmailProcessed"
    /\ LET id == emails[p][idx[p]]
       IN  \E ok \in Settled :
              IF ~ok \/ isEmailProcessed(processedEmails, id)
              THEN /\ Settles(ok)
                   /\ IF ok THEN Advance(p) ELSE MessageCaught(p)
                   /\ UNCHANGED pipelineRuns
              ELSE /\ pipelineRuns' = [pipelineRuns EXCEPT ![id] = IF @ < 2 THEN @ + 1 ELSE @]
                   /\ UNCHANGED <<lastExit, emails, idx, statsCopy, listCopy>>
                   /\ \E o \in { [success |-> res.success, draft |-> res.draft] :
                                     res \in processEmailResults(Email(id)) } :
                         /\ o.success \in Settled
                         /\ Settles(o.success)
                         /\ IF o.draft
                            THEN /\ result' = [result EXCEPT ![p] = o]
                                 /\ pc' = [pc EXCEPT ![p] = "draftsRead"]
                                 /\ UNCHANGED <<isProcessing, holding,
                                                processedCount, cycle, trigger,
                                                response>>
                            ELSE /\ Processed(p, o)
                                 /\ UNCHANGED <<isProcessing, holding>>
    /\ UNCHANGED <<processedEmails, statistics, lastSync, now, otherVars>>

\* incrementStatistic inside processEmail: getStatistics() settles.  A
\* rejection is caught by processEmail, which returns success: false.
DraftStatRead(p) ==
    /\ pc[p] \in {"draftsRead", "hoursRead"}
    /\ \E ok \in Settled :
          /\ Settles(ok)
          /\ IF ok
             THEN /\ statsCopy' = [statsCopy EXCEPT ![p] = statistics]
                  /\ pc' = [pc EXCEPT ![p] =
                              IF pc[p] = "draftsRead" THEN "draftsWrite"
                                                      ELSE "hoursWrite"]
                  /\ UNCHANGED <<result, processedCount, cycle, trigger,
                                 response>>
             ELSE /\ Processed(p, failureResult(0, 0))
                  /\ UNCHANGED statsCopy
    /\ UNCHANGED <<isProcessing, holding, lastExit, emails, idx, listCopy,
                   processedEmails, statistics, lastSync, now, pipelineRuns,
                   otherVars>>

\* incrementStatistic inside processEmail: setStorage settles.  After
\* 'draftsGenerated' comes 'hoursSaved'; after 'hoursSaved' processEmail
\* returns success: true.
DraftStatWrite(p) ==
    /\ pc[p] \in {"draftsWrite", "hoursWrite"}
    /\ \E ok \in Settled :
          /\ Settles(ok)
          /\ IF ~ok
             THEN /\ Processed(p, failureResult(0, 0))
                  /\ UNCHANGED statistics
             ELSE IF pc[p] = "draftsWrite"
             THEN /\ statistics' = incremented(statsCopy[p], "draftsGenerated", 1)
                  /\ pc' = [pc EXCEPT ![p] = "hoursRead"]
                  /\ UNCHANGED <<result, processedCount, cycle, trigger,
                                 response>>
             ELSE /\ statistics' = incremented(statsCopy[p], "hoursSaved",
                                               DraftMinutes)
                  /\ Processed(p, result[p])
    /\ UNCHANGED <<isProcessing, holding, lastExit, emails, idx, statsCopy,
                   listCopy, processedEmails, lastSync, now, pipelineRuns,
                   otherVars>>

\* markEmailAsProcessed: getProcessedEmails() settles
MarkRead(p) ==
    /\ pc[p] = "markRead"
    /\ LET id == emails[p][idx[p]]
       IN  \E ok \in Settled :
              /\ Settles(ok)
              /\ IF ok /\ needsInsert(processedEmails, id)
                 THEN /\ listCopy' = [listCopy EXCEPT ![p] =
                                         trimmed(processedEmails, id)]
                      /\ pc' = [pc EXCEPT ![p] = "markWrite"]
                      /\ UNCHANGED <<isProcessing, holding, lastExit, emails,
                                     idx, processedCount, result, statsCopy,
                                     cycle, trigger, response>>
                 ELSE IF ok THEN Advance(p) ELSE MessageCaught(p)
    /\ UNCHANGED <<processedEmails, statistics, lastSync, now, pipelineRuns,
                   otherVars>>

\* markEmailAsProcessed: setStorage settles
MarkWrite(p) ==
    /\ pc[p] = "markWrite"
    /\ \E ok \in Settled :
          /\ Settles(ok)
          /\ processedEmails' = IF ok THEN listCopy[p] ELSE processedEmails
          /\ IF ok THEN Advance(p) ELSE MessageCaught(p)
    /\ UNCHANGED <<statistics, lastSync, now, pipelineRuns, otherVars>>

\* incrementStatistic('emailsProcessed', processedCount): getStatistics()
\* settles
StatRead(p) ==
    /\ pc[p] = "statRead"
    /\ \E ok \in Settled :
          /\ Settles(ok)
          /\ IF ok
             THEN /\ statsCopy' = [statsCopy EXCEPT ![p] = statistics]
                  /\ pc' = [pc EXCEPT ![p] = "statWrite"]
                  /\ UNCHANGED <<isProcessing, holding, lastExit, emails, idx,
                                 processedCount, result, listCopy, cycle,
                                 trigger, response>>
             ELSE Caught(p, "statisticsError")
    /\ UNCHANGED <<processedEmails, statistics, lastSync, now, pipelineRuns,
                   otherVars>>

\* incrementStatistic('emailsProcessed', processedCount): setStorage settles;
\* then setStorage of the last-sync time is called
StatWrite(p) ==
    /\ pc[p] = "statWrite"
    /\ \E ok \in Settled :
          /\ Settles(ok)
          /\ IF ok
             THEN /\ statistics' = incremented(statsCopy[p], "emailsProcessed",
                                               processedCount[p])
                  /\ pc' = [pc EXCEPT ![p] = "lastSync"]
                  /\ UNCHANGED <<isProcessing, holding, lastExit, emails, idx,
                                 processedCount, result, statsCopy, listCopy,
                                 cycle, trigger, response>>
             ELSE /\ Caught(p, "statisticsError")
                  /\ UNCHANGED statistics
    /\ UNCHANGED <<processedEmails, lastSync, now, pipelineRuns, otherVars>>

\* setStorage({ lastSync: Date.now() }) settles and syncEmails returns
LastSyncWrite(p) ==
    /\ pc[p] = "lastSync"
    /\ \E ok \in Settled :
          /\ Settles(ok)
          /\ IF ok
             THEN /\ lastSync' = now
                  /\ Returns(p, "completed")
                  /\ UNCHANGED <<isProcessing, holding>>
             ELSE /\ Caught(p, "lastSyncError")
                  /\ UNCHANGED lastSync
    /\ UNCHANGED <<processedEmails, statistics, now, pipelineRuns, otherVars>>

Next ==
    \E p \in Procs :
        \/ Start(p)
        \/ AfterFetch(p)
        \/ ProcessEmail(p)
        \/ DraftStatRead(p)
        \/ DraftStatWrite(p)
        \/ MarkRead(p)
        \/ MarkWrite(p)
        \/ StatRead(p)
        \/ StatWrite(p)
        \/ LastSyncWrite(p)

Spec == Init /\ [][Next]_vars

-----------------------------------------------------------------------------
(* One sync cycle on its own: a single syncEmails invocation, on a mailbox  *)
(* of CycleMsgs messages of which the first may already be in the          *)
(* processed list.                                                         *)

CycleInit ==
    /\ SyncInit
    /\ peIn = NoCall
    /\ peOut = NoRun
    /\ customLabels = <<>>
    /\ sumIn = NoRequest
    /\ sumOut = NoSummary
    /\ mailbox = CycleMailbox
    /\ processedEmails \in {<<>>, <<1>>}
    /\ history = <<>>
    /\ marks = <<>>
    /\ clsIn = NoInput
    /\ clsOut = NoClassification

\* every step of the invocation; a second invocation is not started
CycleNext ==
    \/ /\ now = 0
       /\ Start(1)
    \/ AfterFetch(1)
    \/ ProcessEmail(1)
    \/ DraftStatRead(1)
    \/ DraftStatWrite(1)
    \/ MarkRead(1)
    \/ MarkWrite(1)
    \/ StatRead(1)
    \/ StatWrite(1)
    \/ LastSyncWrite(1)

CycleSpec == CycleInit /\ [][CycleNext]_vars

-----------------------------------------------------------------------------
(* The processed-email list on its own: markEmailAsProcessed called again   *)
(* and again, one call finishing before the next starts, on a list that    *)
(* earlier calls have filled up to the cap.                                *)

\* the list after markEmailAsProcessed(1), ..., markEmailAsProcessed(n)
FilledList(n) == [i \in 1..n |-> i]

\* ids the calls are made with: two ids stored at the start (the oldest and
\* a recent one) and ids that were never stored
DedupIds == {1, DedupCap - 1} \cup ((DedupCap + 1)..(DedupCap + FreshIds))

DedupInit ==
    /\ SyncInit
    /\ peIn = NoCall
    /\ peOut = NoRun
    /\ customLabels = <<>>
    /\ sumIn = NoRequest
    /\ sumOut = NoSummary
    /\ mailbox = Msgs
    /\ processedEmails \in {FilledList(DedupCap - 1), FilledList(DedupCap)}
    /\ history = processedEmails
    /\ marks = <<>>
    /\ clsIn = NoInput
    /\ clsOut = NoClassification

\* one complete markEmailAsProcessed(emailId) call
DedupMark(emailId) ==
    /\ Len(marks) < MaxMarks
    /\ marks' = Append(marks, emailId)
    /\ processedEmails' = markEmailAsProcessed(processedEmails, emailId)
    /\ history' = IF \E i \in 1..Len(processedEmails) : processedEmails[i] = emailId
                  THEN history
                  ELSE Append(history, emailId)
    /\ UNCHANGED <<syncVars, clsIn, clsOut, mailbox, peIn, peOut>>

DedupNext == \E emailId \in DedupIds : DedupMark(emailId)

DedupSpec == DedupInit /\ [][DedupNext]_vars

-----------------------------------------------------------------------------
(* The classifier on its own: one classifyEmail call per behaviour, for    *)
(* every summary, subject, sender and collaborator behaviour below.        *)

ClassifySummaries ==
    {TxtEmpty, TxtSaleUnsub, TxtPleaseReview, TxtReceiptConf, TxtWholesale, TxtNotes}

ClassifySubjects ==
    {TxtEmpty, TxtSaleUnsub, TxtCanYou, TxtAlertHelp, TxtYourReceipt, TxtOfferQ, TxtNotes}

ClassifySenders ==
    {TxtEmpty, TxtNoReply, TxtBob, TxtNoreplyShop}

\* category values a parsed answer can carry
AnsweredCategories ==
    EMAIL_CATEGORIES \cup {"respond", "Spam", "", Undefined}

ClassifyContents ==
    {NoContent,
     [kind |-> "malformed", category |-> Undefined, summary |-> TxtEmpty]}
    \cup {[kind |-> "json", category |-> c, summary |-> s] :
             c \in AnsweredCategories, s \in {TxtEmpty, TxtNotes}}

ClassifyEnvs ==
    {[apiKeys |-> k, request |-> "error", content |-> NoContent] :
         k \in {"error", "missing", "present"}}
    \cup {[apiKeys |-> "present", request |-> "content", content |-> c] :
             c \in ClassifyContents}

ClassifyInit ==
    /\ SyncInit
    /\ peIn = NoCall
    /\ peOut = NoRun
    /\ customLabels = <<>>
    /\ sumIn = NoRequest
    /\ sumOut = NoSummary
    /\ mailbox = Msgs
    /\ processedEmails = <<>>
    /\ history = <<>>
    /\ marks = <<>>
    /\ clsIn \in [summary : ClassifySummaries, subject : ClassifySubjects,
                  from : ClassifySenders, env : ClassifyEnvs]
    /\ clsOut = NoClassification

\* the classifyEmail call
Classify ==
    /\ clsOut = NoClassification
    /\ clsOut' = classifyEmail(clsIn.env, clsIn.summary,
                               [subject |-> clsIn.subject, from |-> clsIn.from])
    /\ UNCHANGED <<syncVars, processedEmails, history, marks, clsIn, mailbox,
                   peIn, peOut>>

ClassifyNext == Classify

ClassifySpec == ClassifyInit /\ [][ClassifyNext]_vars

-----------------------------------------------------------------------------
(* processEmail on its own: one call, from the loop of syncEmails with a    *)
(* listed message or from the PROCESS_EMAIL case of the message listener,  *)
(* for every behaviour of its collaborators below.                         *)

\* JavaScript undefined where a text is expected
NoText == Literal("undefined")

\* JavaScript undefined where a message or thread id is expected
NoId == 0

\* a || b on texts
orElse(a, b) ==
    IF a = TxtEmpty \/ a = NoText THEN b ELSE a

\* summarizeEmail(emailContent) throws: without a key, or after a failed
\* request, emailContent.substring(0, 500) is evaluated, a TypeError when
\* emailContent is undefined
summarizeEmailThrows(summarizer, emailContent) ==
    summarizer # "ai" /\ emailContent = NoText

\* How a stage of generateDraftReply goes: "ok" the AI service answers,
\* "nokey" it is not configured, "error" the request fails
StageOutcomes == {"ok", "nokey", "error"}

\* the text generateDraft (part_005) resolves to: the answer of the Writer
\* API, or generateSimpleDraft(emailData)
generateDraft(email, outcome) ==
    IF outcome = "ok" THEN <<"draft">> ELSE <<"simple draft">>

\* rewriteDraft(draftText): the rewritten text, or draftText
rewriteDraft(draftText, outcome) ==
    IF outcome = "ok" THEN Append(draftText, "rewritten") ELSE draftText

\* How translateDraftIfNeeded goes: "disabled" enableTranslation is off,
\* "en" the message is in English, "translated" the translator answers,
\* "error" getSettings, detectLanguage or translateText fails
TranslateOutcomes == {"disabled", "en", "translated", "error"}

\* translateDraftIfNeeded(draftText, originalEmailText)
translateDraftIfNeeded(draftText, outcome) ==
    IF outcome = "translated" THEN Append(draftText, "translated") ELSE draftText

\* proofreadDraft(draftText): the corrected text, or draftText
proofreadDraft(draftText, outcome) ==
    IF outcome = "ok" THEN Append(draftText, "proofread") ELSE draftText

\* the stages with proofreading moved in front of rewriting
generateDraftReply_ProofreadFirst(email, denv) ==
    LET draft1 == generateDraft(email, denv.generate)
        draft2 == proofreadDraft(draft1, denv.proofread)
        draft3 == rewriteDraft(draft2, denv.rewrite)
        draft4 == translateDraftIfNeeded(draft3, denv.translate)
    IN  [thrown  |-> ~denv.createOk,
         created |-> [threadId |-> email.threadId, to |-> email.from,
                      subject |-> email.subject, body |-> draft4]]

\* generateDraftReply(email): thrown, whether it rethrows the error of
\* createDraft; created, the arguments of its createDraft call
generateDraftReply(email, denv) ==
    LET draft1 == generateDraft(email, denv.generate)
        draft2 == rewriteDraft(draft1, denv.rewrite)
        draft3 == translateDraftIfNeeded(draft2, denv.translate)
        draft4 == proofreadDraft(draft3, denv.proofread)
    IN  [thrown  |-> ~denv.createOk,
         created |-> [threadId |-> email.threadId, to |-> email.from,
                      subject |-> email.subject, body |-> draft4]]

\* the two counters written whether or not a draft was created
withStatistics_Always(r, stat) ==
    [result |-> r, increments |-> <<"draftsGenerated", "hoursSaved">>]

\* lines 226-247: after generateDraftReply has returned, the two
\* incrementStatistic calls; stat says which of them rejects.  increments
\* lists the counters that were written.
withStatistics(r, stat) ==
    IF ~r.draft
    THEN [result |-> r, increments |-> <<>>]
    ELSE IF stat = "draftsFail"
    THEN [result |-> failureResult(r.labelCalls, r.draftCalls),
          increments |-> <<>>]
    ELSE IF stat = "hoursFail"
    THEN [result |-> failureResult(r.labelCalls, r.draftCalls),
          increments |-> <<"draftsGenerated">>]
    ELSE [result |-> r, increments |-> <<"draftsGenerated", "hoursSaved">>]

\* What the collaborators of one processEmail call do:
\*   summarizer  "ai" the Summarizer API answers, "fallback" it has no key
\*               or its request fails
\*   cenv        the classifier (see usesFallback)
\*   settingsOk, labelOk, custom, customLabelOk  see PipelineEnvs
\*   settings    what getSettings() resolves to
\*   denv        the stages of generateDraftReply and createDraft
\*   stat        "ok", or the incrementStatistic call that rejects
Worlds ==
    [summarizer : {"ai", "fallback"},
     cenv : PipelineClassifierEnvs,
     settingsOk : BOOLEAN, labelOk : BOOLEAN,
     custom : {<<"Work", "Urgent">>}, customLabelOk : BOOLEAN,
     settings : {st \in SettingsChoices : st.autoSync},
     denv : [generate : {"ok", "error"}, rewrite : {"ok", "error"},
             translate : {"translated", "error"},
             proofread : {"ok", "nokey"}, createOk : BOOLEAN],
     stat : {"ok", "draftsFail"}]

\* processEmail(email) as a whole.  classification is what classifyEmail
\* returned (NoClassification when it was not reached), labels the
\* applyLabel calls made, created the createDraft calls made, increments
\* the statistics counters written.
processEmail(email, w) ==
    LET content == orElse(email.body, email.snippet)
    IN  IF summarizeEmailThrows(w.summarizer, content)
        THEN [email |-> email, classification |-> NoClassification,
              result |-> failureResult(0, 0), labels |-> <<>>,
              created |-> <<>>, increments |-> <<>>]
        ELSE LET summary == summarizeEmail(w.summarizer, content)
                 classification ==
                     classifyEmail(w.cenv, summary,
                                   [subject |-> email.subject, from |-> email.from])
                 reply == generateDraftReply(email, w.denv)
                 env == [settingsOk |-> w.settingsOk, labelOk |-> w.labelOk,
                         custom |-> w.custom, customLabelOk |-> w.customLabelOk,
                         draftOk |-> ~reply.thrown]
                 r == processEmailStages(classification, env, w.settings)
                 end == withStatistics(r, w.stat)
             IN  [email |-> email, classification |-> classification,
                  result |-> end.result,
                  labels |-> IF w.settingsOk
                             THEN applyLabelCalls(classification, env, w.settings)
                             ELSE <<>>,
                  created |-> IF r.draftCalls = 1 THEN <<reply.created>>
                                                  ELSE <<>>,
                  increments |-> end.increments]

\* the email object of parseEmailData for message id, with the given body
\* and snippet
Message(id, body, snippet) ==
    [id |-> id, threadId |-> Email(id).threadId, subject |-> Email(id).subject,
     from |-> Email(id).from, body |-> body, snippet |-> snippet]

\* the messages processEmail is tried with: with a body, with a snippet
\* only, with neither
PipelineMessages ==
    {Message(id, Email(id).body, TxtNotes) : id \in 1..2}
    \cup {Message(1, TxtEmpty, TxtCanYou), Message(1, TxtEmpty, NoText)}

\* what processEmail reads from its argument when the argument is the id
\* string of a PROCESS_EMAIL message: every property is undefined
StringAsEmail(emailId) ==
    [id |-> NoId, threadId |-> NoId, subject |-> NoText, from |-> NoText,
     body |-> NoText, snippet |-> NoText]

\* the ids a PROCESS_EMAIL message names
PipelineIds == 1..2

\* the record of a finished call
Ran(out) ==
    [email |-> out.email, classification |-> out.classification,
     result |-> out.result, labels |-> out.labels, created |-> out.created,
     increments |-> out.increments, called |-> TRUE]

\* the statistics record after the increments of one processEmail call
afterIncrements(stats, increments) ==
    IF Len(increments) = 0 THEN stats
    ELSE IF Len(increments) = 1
    THEN incremented(stats, "draftsGenerated", 1)
    ELSE incremented(incremented(stats, "draftsGenerated", 1),
                     "hoursSaved", DraftMinutes)

PipelineInit ==
    /\ SyncInit
    /\ mailbox = Msgs
    /\ processedEmails \in {<<>>, <<1>>}
    /\ history = <<>>
    /\ marks = <<>>
    /\ clsIn = NoInput
    /\ clsOut = NoClassification
    /\ peOut = NoRun
    /\ customLabels = <<>>
    /\ sumIn = NoRequest
    /\ sumOut = NoSummary
    /\ peIn \in [from : {"syncEmails"}, message : PipelineMessages,
                  emailId : {NoId}, world : Worlds]
              \cup [from : {"PROCESS_EMAIL"}, message : {StringAsEmail(NoId)},
                    emailId : PipelineIds, world : Worlds]

\* await processEmail(email) in the loop of syncEmails
RunProcessEmail ==
    /\ peIn.from = "syncEmails"
    /\ ~peOut.called
    /\ LET out == processEmail(peIn.message, peIn.world)
       IN  /\ peOut' = Ran(out)
           /\ statistics' = afterIncrements(statistics, out.increments)
    /\ UNCHANGED <<pipelineFrame, processedEmails, peIn>>

\* case 'PROCESS_EMAIL': const result = await processEmail(message.emailId);
\* sendResponse({ success: true, result })
OnProcessEmail ==
    /\ peIn.from = "PROCESS_EMAIL"
    /\ ~peOut.called
    /\ LET out == processEmail(StringAsEmail(peIn.emailId), peIn.world)
       IN  /\ peOut' = Ran(out)
           /\ statistics' = afterIncrements(statistics, out.increments)
    /\ UNCHANGED <<pipelineFrame, processedEmails, peIn>>

PipelineNext == RunProcessEmail \/ OnProcessEmail

PipelineSpec == PipelineInit /\ [][PipelineNext]_vars

-----------------------------------------------------------------------------
(* Properties *)

-----------------------------------------------------------------------------
(* forceSyncEmails called while a cycle has the flag set, among the alarm   *)
(* and SYNC_EMAILS invocations of Spec.                                     *)

\* forceSyncEmails(): isProcessing = false, then syncEmails() is called and
\* runs to its first await, isAuthenticated()
ForceSyncEmails(p) ==
    /\ pc[p] = "idle"
    /\ \A q \in Procs : q < p => pc[q] # "idle"
    /\ now < MaxStarts
    /\ now' = now + 1
    /\ isProcessing' = FALSE
    /\ pc' = [pc EXCEPT ![p] = "forceStart"]
    /\ trigger' = [trigger EXCEPT ![p] = "forceSync"]
    /\ UNCHANGED <<emails, idx, processedCount, result, statsCopy, listCopy,
                   processedEmails, statistics, lastSync, lastExit, holding,
                   cycle, faults, pipelineRuns, response, otherVars>>

\* the syncEmails() call of forceSyncEmails goes on when getSettings()
\* settles: lines 100-119 as in Start
ForceStart(p) ==
    /\ pc[p] = "forceStart"
    /\ \E authenticated \in BOOLEAN, ok \in Settled, settings \in SettingsChoices :
          /\ Settles(authenticated => ok)
          /\ IF ~authenticated
             THEN /\ Returns(p, "unauthenticated")
                  /\ isProcessing' = flagAfterSkip
                  /\ UNCHANGED holding
             ELSE IF ~ok
             THEN Caught(p, "settingsError")
             ELSE IF ~settings.autoSync
             THEN /\ Returns(p, "disabled")
                  /\ isProcessing' = flagAfterSkip
                  /\ UNCHANGED holding
             ELSE IF alreadyRunning
             THEN /\ Returns(p, "alreadyRunning")
                  /\ isProcessing' = flagAfterSkip
                  /\ UNCHANGED holding
             ELSE /\ isProcessing' = TRUE
                  /\ holding' = [holding EXCEPT ![p] = TRUE]
                  /\ pc' = [pc EXCEPT ![p] = "fetchUnreadEmails"]
                  /\ lastExit' = "none"
                  /\ response' = NoResponse
                  /\ UNCHANGED <<emails, idx, processedCount, result,
                                 statsCopy, listCopy, cycle, trigger>>
    /\ UNCHANGED <<processedEmails, statistics, lastSync, now, pipelineRuns,
                   otherVars>>

\* forceSyncEmails is called when the flag is seen set
ForceNext ==
    \/ Next
    \/ \E p \in Procs :
          \/ isProcessing /\ ForceSyncEmails(p)
          \/ ForceStart(p)

ForceSpec == Init /\ [][ForceNext]_vars

-----------------------------------------------------------------------------
(* The stored custom labels on their own: addCustomLabel, updateCustomLabel *)
(* and deleteCustomLabel called one after the other from the Settings page, *)
(* on a list that earlier calls have filled.                                *)

\* a stored label; name, prompt and createdAt are left out
Label(id, enabled) == [id |-> id, enabled |-> enabled]

\* addCustomLabel(label): labels.push({...label, ...})
addCustomLabel(labels, label) ==
    Append(labels, label)

\* updateCustomLabel(labelId, updates): the first label with this id is
\* merged with the updates; nothing is saved when there is none
updateCustomLabel(labels, labelId, updates) ==
    IF \E i \in 1..Len(labels) : labels[i].id = labelId
    THEN LET index == CHOOSE i \in 1..Len(labels) :
                          /\ labels[i].id = labelId
                          /\ \A j \in 1..(i - 1) : labels[j].id # labelId
         IN  [labels EXCEPT ![index] = [@ EXCEPT !.enabled = updates.enabled]]
    ELSE labels

\* deleteCustomLabel(labelId): labels.filter(l => l.id !== labelId)
deleteCustomLabel(labels, labelId) ==
    LET kept(l) == l.id # labelId
    IN  SelectSeq(labels, kept)

\* the list after n labels were added
FilledLabels(n) == [i \in 1..n |-> Label(i, TRUE)]

\* the ids the calls are made with: the oldest and the newest stored label
\* and an id that was never stored
LabelIds == {1, PrioritiesMax, PrioritiesMax + 1}

LabelsInit ==
    /\ SyncInit
    /\ peIn = NoCall
    /\ peOut = NoRun
    /\ mailbox = Msgs
    /\ processedEmails = <<>>
    /\ history = <<>>
    /\ marks = <<>>
    /\ clsIn = NoInput
    /\ clsOut = NoClassification
    /\ customLabels \in {FilledLabels(PrioritiesMax - 1), FilledLabels(PrioritiesMax)}
    /\ sumIn = NoRequest
    /\ sumOut = NoSummary

\* one complete addCustomLabel call
AddCustomLabel ==
    /\ Len(customLabels) < PrioritiesMax + MaxAdds
    /\ \E id \in LabelIds, enabled \in BOOLEAN :
          customLabels' = addCustomLabel(customLabels, Label(id, enabled))
    /\ UNCHANGED <<isProcessing, pc, emails, idx, processedCount, result,
                   statsCopy, listCopy, statistics, lastSync, now, lastExit,
                   holding, cycle, faults, pipelineRuns, trigger, response,
                   processedEmails, history, marks, clsIn, clsOut, mailbox,
                   peIn, peOut, sumIn, sumOut>>

\* one complete updateCustomLabel call
UpdateCustomLabel ==
    /\ \E id \in LabelIds, enabled \in BOOLEAN :
          customLabels' = updateCustomLabel(customLabels, id, [enabled |-> enabled])
    /\ UNCHANGED <<isProcessing, pc, emails, idx, processedCount, result,
                   statsCopy, listCopy, statistics, lastSync, now, lastExit,
                   holding, cycle, faults, pipelineRuns, trigger, response,
                   processedEmails, history, marks, clsIn, clsOut, mailbox,
                   peIn, peOut, sumIn, sumOut>>

\* one complete deleteCustomLabel call
DeleteCustomLabel ==
    /\ \E id \in LabelIds : customLabels' = deleteCustomLabel(customLabels, id)
    /\ UNCHANGED <<isProcessing, pc, emails, idx, processedCount, result,
                   statsCopy, listCopy, statistics, lastSync, now, lastExit,
                   holding, cycle, faults, pipelineRuns, trigger, response,
                   processedEmails, history, marks, clsIn, clsOut, mailbox,
                   peIn, peOut, sumIn, sumOut>>

LabelsNext == AddCustomLabel \/ UpdateCustomLabel \/ DeleteCustomLabel

LabelsSpec == LabelsInit /\ [][LabelsNext]_vars

-----------------------------------------------------------------------------
(* The summarizer on its own: one summarizeEmail call, for every way the    *)
(* successive requests to the Summarizer API can go.                        *)

\* How one fetch of makeRequestWithRetry goes: "ok" an answer with a
\* summary, "http429" and "http500" an answer with response.ok false,
\* "network" fetch or response.json() rejects, "timeout" the request is
\* aborted after API_TIMEOUT
RequestOutcomes == {"ok", "http429", "http500", "network", "timeout"}

RECURSIVE makeRequestWithRetry(_, _)
\* makeRequestWithRetry(content, apiKey, attempt), the request of attempt n
\* going as outcomes[n]: thrown, whether it throws; attempts, the requests
\* made up to the last one; delays, the sleep(...) times in between
makeRequestWithRetry(outcomes, attempt) ==
    LET o == outcomes[attempt]
        done(thrown) == [thrown |-> thrown, attempts |-> attempt, delays |-> <<>>]
        again == LET r == makeRequestWithRetry(outcomes, attempt + 1)
                 IN  [r EXCEPT !.delays = <<RETRY_DELAY * attempt>> \o @]
    IN  IF o = "ok" THEN done(FALSE)
        ELSE IF o = "http429" /\ attempt < MAX_RETRIES THEN again
        ELSE IF o = "timeout" THEN done(TRUE)
        ELSE IF attempt < MAX_RETRIES THEN again
        ELSE done(TRUE)

\* summarizeEmail(emailContent) with its requests: without a key no request
\* is made; a thrown request error gives the truncated content
summarizeEmailRequests(key, outcomes, emailContent) ==
    IF ~key
    THEN [summary |-> summarizeEmail("fallback", emailContent),
          attempts |-> 0, delays |-> <<>>, called |-> TRUE]
    ELSE LET r == makeRequestWithRetry(outcomes, 1)
         IN  [summary |-> summarizeEmail(IF r.thrown THEN "fallback" ELSE "ai",
                                         emailContent),
              attempts |-> r.attempts, delays |-> r.delays, called |-> TRUE]

\* the contents summarizeEmail is called with
SummarizeContents == {TxtPleaseReview, TxtWholesale}

SummarizeInit ==
    /\ SyncInit
    /\ peIn = NoCall
    /\ peOut = NoRun
    /\ customLabels = <<>>
    /\ mailbox = Msgs
    /\ processedEmails = <<>>
    /\ history = <<>>
    /\ marks = <<>>
    /\ clsIn = NoInput
    /\ clsOut = NoClassification
    /\ sumIn \in [content : SummarizeContents, key : BOOLEAN,
                  outcomes : [1..MAX_RETRIES -> RequestOutcomes]]
    /\ sumOut = NoSummary

\* the summarizeEmail call
Summarize ==
    /\ ~sumOut.called
    /\ sumOut' = summarizeEmailRequests(sumIn.key, sumIn.outcomes, sumIn.content)
    /\ UNCHANGED <<isProcessing, pc, emails, idx, processedCount, result,
                   statsCopy, listCopy, statistics, lastSync, now, lastExit,
                   holding, cycle, faults, pipelineRuns, trigger, response,
                   customLabels, processedEmails, history, marks, clsIn,
                   clsOut, mailbox, peIn, peOut, sumIn>>

SummarizeNext == Summarize

SummarizeSpec == SummarizeInit /\ [][SummarizeNext]_vars

AllIdle == \A p \in Procs : pc[p] = "idle"

\* the ways an invocation returns through the catch block; lastExit keeps
\* the way of the latest return until the flag is next set
ErrorExits ==
    {"settingsError", "fetchError", "statisticsError", "lastSyncError"}

\* C1: single-flight - at no instant are two syncEmails invocations between
\* their isProcessing = true and their isProcessing = false.
C1_SingleFlight ==
    Cardinality({p \in Procs : holding[p]}) <= 1

\* C2: idempotent processing - over any sequence of sync cycles, processEmail
\* is run at most once for a message id, however often the id is listed.
C2_PipelineOnce ==
    \A m \in Msgs : pipelineRuns[m] <= 1

\* C3: a message whose processEmail result is a failure is not put into the
\* processed list by that cycle.
C3_FailureNotMarked ==
    [][\A p \in Procs :
          (pc[p] = "markWrite" /\ pc'[p] # "markWrite"
              /\ processedEmails' # processedEmails)
          => result[p].success]_vars

\* C4: guaranteed release - an invocation that has returned is not holding
\* the flag, whatever failed on its way, and isProcessing is false whenever
\* no syncEmails invocation is running.
C4_LockReleased ==
    /\ \A p \in Procs : pc[p] = "idle" => ~holding[p]
    /\ lastExit \in ErrorExits => ~isProcessing
    /\ AllIdle => ~isProcessing

\* a listing failure has happened, its invocation has returned and nothing
\* else is running
C4_Witness ==
    /\ AllIdle
    /\ lastExit = "fetchError"

\* C5: statistics exactness - a cycle with N successful processEmail
\* results raises emailsProcessed by exactly N (skipped and failed messages
\* are not counted), and a draft raises draftsGenerated by 1 and hoursSaved
\* by 5 minutes.
C5_StatsExact ==
    [][\A p \in Procs :
          /\ (pc[p] = "statWrite" /\ pc'[p] = "lastSync") =>
                statistics'.emailsProcessed
                    = statistics.emailsProcessed + cycle[p].succeeded
          /\ (pc[p] = "draftsWrite" /\ pc'[p] = "hoursRead") =>
                statistics'.draftsGenerated = statistics.draftsGenerated + 1
          /\ (pc[p] = "hoursWrite" /\ pc'[p] = "markRead" /\ result'[p].success) =>
                statistics'.hoursSaved
                    = statistics.hoursSaved + DraftMinutes]_vars

\* C6: no step writes a smaller value into a persisted statistics counter.
C6_Monotonic ==
    [][/\ statistics'.emailsProcessed >= statistics.emailsProcessed
       /\ statistics'.draftsGenerated >= statistics.draftsGenerated
       /\ statistics'.hoursSaved >= statistics.hoursSaved]_vars

\* the last n ids of a list, written out position by position
LastIds(list, n) ==
    LET k == IF Len(list) < n THEN Len(list) ELSE n
    IN  [i \in 1..k |-> list[Len(list) - k + i]]

\* C7: dedup bound - the processed list never holds more than 1000 ids, and
\* it is exactly the (at most) 1000 most recently inserted ids, in
\* insertion order.
C7_DedupBound ==
    /\ Len(processedEmails) <= DedupCap
    /\ processedEmails = LastIds(history, DedupCap)

\* the 1001st distinct id has been inserted and exactly the oldest id was
\* evicted
C7_Witness ==
    /\ Len(history) = DedupCap + 1
    /\ Len(processedEmails) = DedupCap
    /\ processedEmails[1] = 2
    /\ processedEmails[DedupCap] = history[DedupCap + 1]

\* as many different ids as positions
NoDuplicates(list) ==
    Cardinality({list[i] : i \in 1..Len(list)}) = Len(list)

\* C8: idempotent add - a markEmailAsProcessed call with an id that is in
\* the list leaves the list as it is, and no id is ever in the list twice.
C8_Idempotent ==
    /\ []NoDuplicates(processedEmails)
    /\ [][(/\ Len(marks') = Len(marks) + 1
           /\ \E i \in 1..Len(processedEmails) :
                 processedEmails[i] = marks'[Len(marks')])
          => processedEmails' = processedEmails]_vars

\* the oldest stored id was marked again and is still the oldest
C8_Witness ==
    /\ marks # <<>>
    /\ marks[Len(marks)] = 1
    /\ Len(processedEmails) >= DedupCap - 1
    /\ processedEmails[1] = 1

\* C9: category closure - whatever the classifier collaborator does,
\* classifyEmail returns one of the three categories, and an answer whose
\* category is not one of them counts as Notification.
C9_CategoryClosure ==
    clsOut # NoClassification =>
        /\ clsOut.category \in EMAIL_CATEGORIES
        /\ (/\ ~usesFallback(clsIn.env)
            /\ clsIn.env.content.kind = "json"
            /\ clsIn.env.content.category
                   \notin {"Notification", "Respond", "Advertisement"})
           => clsOut.category = "Notification"

\* a parsed answer with an unknown category has been classified
C9_Witness ==
    /\ clsOut # NoClassification
    /\ ~usesFallback(clsIn.env)
    /\ clsIn.env.content.kind = "json"
    /\ clsIn.env.content.category = "Spam"

\* some keyword of the list occurs in text a or text b, case ignored
Occurs(keywords, a, b) ==
    \E n \in 1..Len(keywords) :
        \E t \in {toLowerCase(a), toLowerCase(b)} :
            \E i \in 1..Len(t) :
                /\ i + Len(keywords[n]) - 1 <= Len(t)
                /\ \A j \in 1..Len(keywords[n]) : t[i + j - 1] = keywords[n][j]

\* C10: fallback rule order - without the AI classifier the category is
\* Advertisement when an advertisement keyword occurs in summary or subject;
\* else Notification when a notification keyword occurs in sender or
\* subject; else Respond when a response keyword occurs in summary or
\* subject; else Notification.
C10_FallbackOrder ==
    (clsOut # NoClassification /\ usesFallback(clsIn.env)) =>
        LET ad    == Occurs(adKeywords, clsIn.summary, clsIn.subject)
            notif == Occurs(notificationKeywords, clsIn.from, clsIn.subject)
            resp  == Occurs(responseKeywords, clsIn.summary, clsIn.subject)
        IN  clsOut.category =
                IF ad THEN "Advertisement"
                ELSE IF notif THEN "Notification"
                ELSE IF resp THEN "Respond"
                ELSE "Notification"

\* all three tiers match and the first one has won
C10_Witness ==
    /\ clsOut # NoClassification
    /\ usesFallback(clsIn.env)
    /\ Occurs(adKeywords, clsIn.summary, clsIn.subject)
    /\ Occurs(notificationKeywords, clsIn.from, clsIn.subject)
    /\ Occurs(responseKeywords, clsIn.summary, clsIn.subject)
    /\ clsOut.category = "Advertisement"

\* the awaits inside the for loop of syncEmails
LoopPcs ==
    {"isEmailProcessed", "draftsRead", "draftsWrite", "hoursRead",
     "hoursWrite", "markRead", "markWrite"}

C16_SkipNoEffect ==
    [][(now' = now + 1 /\ lastExit' \in {"alreadyRunning", "disabled"})
        => /\ isProcessing' = isProcessing
           /\ holding' = holding
           /\ processedEmails' = processedEmails
           /\ statistics' = statistics
           /\ lastSync' = lastSync
           /\ pc' = pc]_vars

\* an invocation was skipped as alreadyRunning while another one is inside
\* its loop, and the flag is still set
C16_Witness ==
    /\ lastExit = "alreadyRunning"
    /\ isProcessing
    /\ \E p \in Procs : holding[p] /\ pc[p] \in LoopPcs

\* C17: a cycle-level failure is reported - the response to a SYNC_EMAILS
\* message whose cycle ended in the catch block of syncEmails (the
\* mailbox-listing call threw) does not say success.
C17_FailureReported ==
    (response.sent /\ response.of \in ErrorExits) => ~response.success

\* C18: no partial statistics on an aborted cycle - when the one cycle of
\* CycleSpec has ended through the catch block of syncEmails, every counter
\* has the value it had when the cycle started.
C18_NoPartialStats ==
    lastExit \in ErrorExits => statistics = DefaultStatistics

\* a processEmail call made by the loop of syncEmails has returned
SyncCallDone ==
    peOut.called /\ peIn.from = "syncEmails"

\* C11: draft gating - a processEmail run that has classified the message
\* and read the settings makes exactly one createDraft call when the
\* category is Respond and autoDraft is on, and none otherwise.
C11_DraftGating ==
    (/\ SyncCallDone
     /\ peOut.classification # NoClassification
     /\ peIn.world.settingsOk)
    => Len(peOut.created) =
          IF /\ peOut.classification.category = RESPOND
             /\ peIn.world.settings.autoDraft
          THEN 1 ELSE 0

\* C13: apply-label failure is skippable - when applyLabel for the category
\* throws, processEmail ends as it would have ended had the call succeeded:
\* same success, same category, same createDraft calls.
C13_LabelSkippable ==
    (/\ SyncCallDone
     /\ peOut.classification # NoClassification
     /\ peIn.world.settingsOk
     /\ peIn.world.settings.autoApplyLabels
     /\ ~peIn.world.labelOk)
    => LET labelled == processEmail(peIn.message,
                                    [peIn.world EXCEPT !.labelOk = TRUE])
       IN  labelled.result.success
           => /\ peOut.result.success
              /\ peOut.result.category = labelled.result.category
              /\ peOut.created = labelled.created

\* C14: summarizer and classifier failures are replaced by fallbacks - with
\* every other collaborator working, processEmail returns success for every
\* message, also one without body and snippet, whatever the summarizer and
\* the classifier do.
C14_FallbackNeverFails ==
    (/\ SyncCallDone
     /\ peIn.world.settingsOk
     /\ peIn.world.labelOk
     /\ peIn.world.denv.createOk
     /\ peIn.world.stat = "ok")
    => peOut.result.success

\* C15: in generateDraftReply only createDraft can fail - when createDraft
\* succeeds processEmail succeeds (and both counters are written) whatever
\* generate, rewrite, translate and proofread did; when createDraft fails
\* processEmail returns a failure and no counter is written.
C15_OnlyPublishFails ==
    (SyncCallDone /\ peOut.created # <<>>)
    => IF peIn.world.denv.createOk
       THEN peIn.world.stat = "ok"
            => /\ peOut.result.success
               /\ statistics.draftsGenerated = 1
               /\ statistics.hoursSaved = DraftMinutes
       ELSE /\ ~peOut.result.success
            /\ statistics = DefaultStatistics

\* createDraft failed after rewrite and translate had failed too
C15_Witness ==
    /\ SyncCallDone
    /\ peOut.created # <<>>
    /\ peIn.world.denv.rewrite = "error"
    /\ peIn.world.denv.translate = "error"
    /\ ~peIn.world.denv.createOk
    /\ ~peOut.result.success

\* C19: ProcessOne honors the dedup store - a PROCESS_EMAIL message with an
\* id that is in the processed list makes no applyLabel and no createDraft
\* call; with another id, processEmail runs on the message of that id.
C19_ProcessOneDedup ==
    (peOut.called /\ peIn.from = "PROCESS_EMAIL")
    => IF isEmailProcessed(processedEmails, peIn.emailId)
       THEN peOut.result.labelCalls = 0 /\ peOut.created = <<>>
       ELSE peOut.email.id = peIn.emailId

\* C20: draft stages in order - the body handed to createDraft is the
\* generated text followed by the marks of the polish stages that worked,
\* in the order rewrite, translate, proofread (a failed stage leaves no
\* mark), with the threadId, sender and subject of the message.
C20_StageOrder ==
    (SyncCallDone /\ peOut.created # <<>>)
    => LET d == peIn.world.denv
           Worked(mark) ==
               \/ mark = "rewritten" /\ d.rewrite = "ok"
               \/ mark = "translated" /\ d.translate = "translated"
               \/ mark = "proofread" /\ d.proofread = "ok"
           sent == peOut.created[1]
       IN  /\ Len(peOut.created) = 1
           /\ sent.body =
                 generateDraft(peIn.message, d.generate)
                 \o SelectSeq(<<"rewritten", "translated", "proofread">>, Worked)
           /\ sent.threadId = peIn.message.threadId
           /\ sent.to = peIn.message.from
           /\ sent.subject = peIn.message.subject

\* rewrite failed, translate and proofread worked
C20_Witness ==
    /\ SyncCallDone
    /\ peOut.created # <<>>
    /\ peIn.world.denv.rewrite = "error"
    /\ peOut.created[1].body = <<"draft", "translated", "proofread">>

C22_LastSyncRecorded ==
    lastExit \in {"completed", "empty"} => lastSync = now

\* C23: the keyword fallback decides in both failure modes of the
\* classifier - when the AI collaborator is unavailable or errors, and when
\* its answer cannot be parsed, the returned category is the one
\* fallbackClassification gives for the same summary, subject and sender.
C23_FallbackInBothModes ==
    (/\ clsOut # NoClassification
     /\ \/ usesFallback(clsIn.env)
        \/ clsIn.env.content.kind # "json")
    => clsOut.category
          = fallbackClassification(clsIn.summary,
                [subject |-> clsIn.subject, from |-> clsIn.from]).category

\* C24: label gating - a processEmail run that has classified the message
\* and read the settings makes no applyLabel call when autoApplyLabels is
\* off, and then still reports the category and the matched custom labels
\* in its result; when it is on, it asks for the category label exactly
\* once and, the label calls resolving, for each matched custom label
\* exactly once, after the category.
C24_LabelGating ==
    (/\ SyncCallDone
     /\ peOut.classification # NoClassification
     /\ peIn.world.settingsOk)
    => IF ~peIn.world.settings.autoApplyLabels
       THEN /\ peOut.labels = <<>>
            /\ peOut.result.labelCalls = 0
            /\ peOut.result.success
               => /\ peOut.result.category = peOut.classification.category
                  /\ peOut.result.customLabels = peIn.world.custom
       ELSE /\ Len(peOut.labels) >= 1
            /\ peOut.labels[1] = peOut.classification.category
            /\ (peIn.world.labelOk /\ peIn.world.customLabelOk)
               => peOut.labels
                     = <<peOut.classification.category>> \o peIn.world.custom

\* autoApplyLabels is off and the run succeeded with two matched custom
\* labels in its result
C24_Witness ==
    /\ SyncCallDone
    /\ ~peIn.world.settings.autoApplyLabels
    /\ peOut.result.success
    /\ peOut.result.customLabels = <<"Work", "Urgent">>
    /\ peOut.labels = <<>>

\* C25: the custom-label stage is best-effort - when a call of the stage
\* throws (applyLabel for a matched custom label rejects), processEmail is
\* not aborted, its result carries an empty matched-label set, and the
\* draft is gated as for a message without matches.
C25_CustomBestEffort ==
    (/\ SyncCallDone
     /\ peOut.classification # NoClassification
     /\ peIn.world.settingsOk
     /\ peIn.world.settings.autoApplyLabels
     /\ peIn.world.labelOk
     /\ ~peIn.world.customLabelOk)
    => LET plain == processEmail(peIn.message,
                                 [peIn.world EXCEPT !.custom = <<>>])
       IN  /\ peOut.result.success = plain.result.success
           /\ peOut.created = plain.created
           /\ peOut.result.success => peOut.result.customLabels = <<>>

\* C26: forceSync recovers a stuck flag - the syncEmails call of a
\* forceSyncEmails made while the flag was set is never skipped as already
\* running, whatever alarm-triggered invocations do in between, and when it
\* returns from a cycle of its own the flag is false.
C26_ForceSyncRuns ==
    [][\A p \in Procs :
          /\ (pc[p] = "forceStart" /\ pc'[p] = "idle")
             => lastExit' # "alreadyRunning"
          /\ (trigger[p] = "forceSync" /\ pc[p] # "forceStart" /\ pc'[p] = "idle")
             => ~isProcessing']_vars

\* C27: no lost update - whatever alarm- and SYNC_EMAILS-triggered
\* invocations interleave, every write of incrementStatistic adds its
\* amount to the value that is stored at that moment, and every write of
\* markEmailAsProcessed adds its id to the list that is stored at that
\* moment; so the stored counters are the initial values plus all
\* increments issued and no marked id is dropped.
C27_NoLostUpdate ==
    [][\A p \in Procs :
          /\ (pc[p] = "statWrite" /\ pc'[p] = "lastSync")
             => statistics' = incremented(statistics, "emailsProcessed",
                                          processedCount[p])
          /\ (pc[p] = "draftsWrite" /\ pc'[p] = "hoursRead")
             => statistics' = incremented(statistics, "draftsGenerated", 1)
          /\ (pc[p] = "hoursWrite" /\ pc'[p] = "markRead" /\ result'[p].success)
             => statistics' = incremented(statistics, "hoursSaved", DraftMinutes)
          /\ (pc[p] = "markWrite" /\ processedEmails' # processedEmails)
             => processedEmails'
                   = markEmailAsProcessed(processedEmails, emails[p][idx[p]])]_vars

\* C28: the stored custom labels are bounded - after any sequence of
\* addCustomLabel, updateCustomLabel and deleteCustomLabel calls the stored
\* list has at most 500 entries.
C28_LabelsBounded ==
    Len(customLabels) <= PrioritiesMax

\* the first request of the call that is answered with a summary, or
\* MAX_RETRIES when none is
FirstOk(outcomes) ==
    IF \E n \in 1..MAX_RETRIES : outcomes[n] = "ok"
    THEN CHOOSE n \in 1..MAX_RETRIES :
             /\ outcomes[n] = "ok"
             /\ \A k \in 1..(n - 1) : outcomes[k] # "ok"
    ELSE MAX_RETRIES

\* C29: summarizer retry - with a key configured, a failed request (HTTP
\* error status, network error or timeout) is followed by another one,
\* after a longer delay each time, until a request succeeds or MAX_RETRIES
\* requests have been made, never more; summarizeEmail then returns the
\* summary, or the truncated content when the last request failed too.
C29_RetryCoversFailures ==
    (sumOut.called /\ sumIn.key)
    => /\ sumOut.attempts <= MAX_RETRIES
       /\ sumOut.attempts = FirstOk(sumIn.outcomes)
       /\ Len(sumOut.delays) = sumOut.attempts - 1
       /\ \A i \in 1..Len(sumOut.delays) :
             \A j \in 1..Len(sumOut.delays) :
                 i < j => sumOut.delays[i] < sumOut.delays[j]
       /\ sumOut.summary =
             IF \E n \in 1..MAX_RETRIES : sumIn.outcomes[n] = "ok"
             THEN summarizeEmail("ai", sumIn.content)
             ELSE summarizeEmail("fallback", sumIn.content)

\* C30: flag ownership - a step that resets isProcessing from true to false
\* is a step of the invocation that set it and has not reset it since; an
\* invocation that returns without having set the flag leaves it set.
C30_FlagOwnership ==
    [][(isProcessing /\ ~isProcessing')
        => \E p \in Procs : holding[p] /\ ~holding'[p]]_vars

=============================================================================
